---- MODULE Spec2Model ----
(***************************************************************************)
(* clidm: the segmented HTTP transfer engine (DownloaderHTTP), its rate    *)
(* limiter (TokenBucket), its planner and file naming (_probe), and the    *)
(* status reporter of api_wrapper (StatusReporter), as state machines.     *)
(*                                                                         *)
(* One action is one stretch of code between two suspension points of the  *)
(* asyncio event loop.  The disk (partial files, output file, state file)  *)
(* survives a process kill; everything else is rebuilt by __init__.        *)
(***************************************************************************)
EXTENDS Integers, Sequences, FiniteSets, TLC

\* ------------------------------------------------------------------ bounds
ResourceSize == 3            \* bytes of the remote resource
MaxChunkSize == 2       \* largest configured chunk size
NumWorkers == 2         \* the concurrency setting
MaxRetries == 1         \* the retries setting
MaxFailures == 2        \* connection failures the network suffers in one run
MaxBuf == 2             \* largest buffer iter_chunked yields (65536, scaled)
MaxRuns == 2            \* download() runs over the same disk (1 + restarts)
MaxRate == 2            \* largest configured rate, bytes per second
MaxIdle == 10           \* ticks counted since the last refill
MaxWindow == 10         \* ticks a window is observed for
MantissaBits == 3       \* significand bits of a float (53, scaled)
MaxPlanSize == 12       \* largest size the planner is given
MaxPlanChunk == 5       \* largest chunk size the planner is given
MaxReports == 4         \* calls of StatusReporter.report in one transfer
MaxClock == 5           \* ticks of the reporter's clock that are followed

\* ------------------------------------------------------------- the resource
\* Byte at offset i of the resource; every offset carries a different value.
ByteAt(i) == i + 1

Resource == [i \in 1..ResourceSize |-> ByteAt(i - 1)]

\* Bytes at offsets lo..hi (inclusive), empty when hi < lo.
Bytes(lo, hi) == [i \in 1..(IF hi < lo THEN 0 ELSE hi - lo + 1) |-> ByteAt(lo + i - 1)]

\* `end is None`
NoEnd == 0 - 1

Min(a, b) == IF a < b THEN a ELSE b

VARIABLES
    srvRanges,      \* the server answers HEAD with Accept-Ranges: bytes and serves ranges
    srvLength,      \* the server announces Content-Length
    chunk_size,     \* self.chunk_size
    verify_sha256,  \* self.verify_sha256: NoHash or a hex digest
    phase,          \* position of download(): init, probed, fetching, assembling,
                    \* verifying, saved, failed, killed
    accept_ranges,  \* self.accept_ranges
    total_size,     \* self.total_size (0: unknown)
    chunks,         \* self.chunks
    pending,        \* the workers' shared list
    pc,             \* per worker: idle, request, stream, done, raised, indexerror
    seg,            \* per worker: the (start, end) it fetches
    rs,             \* per worker: the range start computed on entry to _fetch
    attempt,        \* per worker: _fetch's attempt counter
    body,           \* per worker: bytes of the response not yet delivered
    progress_downloaded,
    parts,          \* disk: partial files, keyed by (start, end)
    outFile,        \* disk: the output file, <<"absent">> or <<"file", bytes>>
    asmIdx,         \* _assemble: number of chunks already appended
    state_data,     \* State.data
    state_file,     \* disk: the state file (.<name>.clidm.json): NoState or its JSON object
    run,            \* number of the current download() over this disk
    popCount,       \* observation: per chunk, how often it was popped in this run
    failures,       \* the network: connection failures so far in this run
    killedIn,       \* observation: the phase in which the previous run was killed
    onDisk,         \* observation: bytes in partial files when this run started
    netBytes,       \* observation: body bytes received in this run
    partsExact,     \* observation: at the start of _assemble every partial file
                    \* held exactly the bytes of its range
    error,          \* what download() raised: none, fetch, assemble, hash
    rate,           \* TokenBucket.rate, bytes per second (0: no limit)
    tokens,         \* TokenBucket.tokens, in units of 1/TicksPerSec byte
    elapsed,        \* ticks since TokenBucket.last
    lockOwner,      \* TokenBucket.lock: the caller holding it (0: free)
    lockWaiters,    \* TokenBucket.lock: the callers queued for it
    cpc,            \* per caller of consume: idle, lockwait, sleep
    need,           \* per caller: the n of its consume(n)
    wake,           \* per caller: ticks left of its sleep(0.1)
    winOpen,        \* observation: a window of time is being observed
    winTicks,       \* observation: its duration so far
    winBytes,       \* observation: bytes for which consume returned within it
    clock,          \* time.time() as the reporter reads it, in ticks of 0.05 s
    last_update,    \* StatusReporter.last_update
    emitted,        \* stdout: the events printed, each << status, time >>
    calls,          \* observation: calls of report() so far
    finalReported,  \* observation: the final status handed to report(), or "none"
    output,         \* --output: the file name the user gave, or NoName
    url,            \* self.url, as its "/"-separated pieces
    content_disposition,  \* the Content-Disposition header of the response
    out             \* self.out: the name of the file the transfer writes to

vars == << srvRanges, srvLength, chunk_size, verify_sha256, phase, accept_ranges,
           total_size, chunks, pending, pc, seg, rs, attempt, body,
           progress_downloaded, parts, outFile, asmIdx, state_data, state_file,
           run, popCount, failures, killedIn, onDisk, netBytes, partsExact, error,
           rate, tokens, elapsed, lockOwner, lockWaiters, cpc, need, wake,
           winOpen, winTicks, winBytes,
           clock, last_update, emitted, calls, finalReported,
           output, url, content_disposition, out >>

\* The limiter's state, the reporter's, and the transfer's.
limiter == << rate, tokens, elapsed, lockOwner, lockWaiters, cpc, need, wake,
              winOpen, winTicks, winBytes >>

reporter == << clock, last_update, emitted, calls, finalReported >>

naming == << output, url, content_disposition, out >>

transfer == << srvRanges, srvLength, chunk_size, verify_sha256, phase,
               accept_ranges, total_size, chunks, pending, pc, seg, rs, attempt,
               body, progress_downloaded, parts, outFile, asmIdx, state_data,
               state_file, run, popCount, failures, killedIn, onDisk, netBytes,
               partsExact, error >>

\* One worker more than the concurrency setting.
OneMoreWorker == 1..(NumWorkers + 1)

\* `worker(i) for i in range(self.concurrency)`
Workers == 1..NumWorkers

Absent == << "absent" >>
File(b) == << "file", b >>

NoSeg == << 0, 0 - 2 >>

\* ---------------------------------------------------------------- the server
\* What the server may send for a GET carrying `Range: bytes=from-to` (to = NoEnd:
\* `bytes=from-`; from = NoEnd: no Range header): << "ok", body >> or << "error" >>.
\* A server without range support ignores the header and sends the whole resource.
\* A range starting past the resource is answered 416; one that starts past its
\* own end is invalid, and a server may reject it or ignore it.
ServerResponses(from, to) ==
    IF from = NoEnd \/ ~srvRanges THEN { << "ok", Resource >> }
    ELSE IF to # NoEnd /\ from > to THEN { << "error" >>, << "ok", Resource >> }
    ELSE IF from >= ResourceSize THEN { << "error" >> }
    ELSE { << "ok", Bytes(from, IF to = NoEnd THEN ResourceSize - 1
                                               ELSE Min(to, ResourceSize - 1)) >> }

\* ------------------------------------------------------------------- the disk
Exists(disk, k) == k \in DOMAIN disk

FileSize(disk, k) == IF Exists(disk, k) THEN Len(disk[k]) ELSE 0

\* open(dest, "ab") followed by write(data): creates the file when it is absent.
AppendTo(disk, k, data) ==
    IF Exists(disk, k) THEN [disk EXCEPT ![k] = @ \o data] ELSE disk @@ (k :> data)

Unlink(disk, k) == [x \in DOMAIN disk \ {k} |-> disk[x]]

RECURSIVE SumSizes(_, _)
SumSizes(disk, ks) ==
    IF ks = {} THEN 0
    ELSE LET k == CHOOSE x \in ks : TRUE IN Len(disk[k]) + SumSizes(disk, ks \ {k})

\* --------------------------------------------------------------- the planner
\* The exact ceiling of a / b.
CeilDiv(a, b) == (a + b - 1) \div b

RECURSIVE Pow2(_)
Pow2(n) == IF n = 0 THEN 1 ELSE 2 * Pow2(n - 1)

\* int.bit_length()
RECURSIVE BitLen(_)
BitLen(n) == IF n = 0 THEN 0 ELSE 1 + BitLen(n \div 2)

\* The multiple of u nearest to num / den, a tie going to the even multiple.
NearestMultiple(num, den, u) ==
    LET m == num \div (den * u)
        d == 2 * (num - m * u * den)
    IN  IF d < u * den \/ (d = u * den /\ m % 2 = 0) THEN m * u ELSE (m + 1) * u

\* An int taken as a float operand of `/`: exact while it fits the significand,
\* else rounded to the nearest float.
ToFloat(n) ==
    IF BitLen(n) <= MantissaBits THEN n
    ELSE NearestMultiple(n, 1, Pow2(BitLen(n) - MantissaBits))

\* math.ceil(a / b), a and b positive ints: `/` is float division, its result
\* the float nearest to the quotient of the operands.  A quotient between k and
\* k + 1 is rounded down to k when it lies within half a float spacing of k.
CeilTrueDiv(a, b) ==
    LET fa == ToFloat(a)
        fb == ToFloat(b)
        k == fa \div fb
        r == fa % fb
    IN  IF r = 0 THEN k
        ELSE IF k = 0 THEN 1
        ELSE IF BitLen(k) < MantissaBits
        THEN IF r * Pow2(MantissaBits - BitLen(k) + 1) <= fb THEN k ELSE k + 1
        ELSE NearestMultiple(fa, fb, Pow2(BitLen(k) - MantissaBits))

\* `if self.total_size:` in place of `if self.accept_ranges and self.total_size:`
PlanBySizeAlone(ranges, size, chunk) ==
    IF size # 0
    THEN [i \in 1..CeilTrueDiv(size, chunk) |->
            << (i - 1) * chunk, Min(i * chunk - 1, size - 1) >>]
    ELSE << << 0, NoEnd >> >>

\* _probe, "Setup chunk ranges"
Plan(ranges, size, chunk) ==
    IF ranges /\ size # 0
    THEN [i \in 1..CeilTrueDiv(size, chunk) |->
            << (i - 1) * chunk, Min(i * chunk - 1, size - 1) >>]
    ELSE << << 0, NoEnd >> >>

\* The bytes of the resource a segment stands for.
SegBytes(c) == Bytes(c[1], IF c[2] = NoEnd THEN ResourceSize - 1 ELSE c[2])

ChunkSet == { chunks[i] : i \in DOMAIN chunks }

\* ------------------------------------------------------------------ settings
concurrency == NumWorkers

retries == MaxRetries

\* ------------------------------------------------------------------ hashing
\* hashlib.sha256(...).hexdigest(): lower-case hex digits, one digest per content.
HexDigest(b) == << "sha", b >>

\* The digest string compared as it is, without lower().
AsGiven(h) == h

\* str.lower() on a digest string.
Lower(h) == IF h[1] = "SHA" THEN << "sha", h[2] >> ELSE h

Upper(h) == IF h[1] = "sha" THEN << "SHA", h[2] >> ELSE h

NoHash == << "none", << >> >>

\* The --sha256 values tried: none, the resource's digest written in upper case,
\* and the digest of something else.
Hashes == { NoHash, Upper(HexDigest(Resource)), HexDigest(<< >>) }

\* ---------------------------------------------------------------- TokenBucket
\* Time is counted in ticks of one `asyncio.sleep(0.1)`; tokens in units of
\* 1/TicksPerSec byte, so that (now - last) * rate is an integer.
TicksPerSec == 10

Capacity == rate * TicksPerSec

\* The refill without `if self.tokens > self.rate: self.tokens = self.rate`.
RefillUnclamped(t, e) == t + e * rate

\* `self.tokens += (now - self.last) * self.rate`, clamped to self.rate
Refill(t, e) == Min(t + e * rate, Capacity)

\* ---------------------------------------------------------------- file names
\* args.output not given.
NoName == ""

\* No Content-Disposition header in the response.
NoHeader == << "none", "" >>

\* The --output values tried: none, and a file name.
Outputs == { NoName, "user.bin" }

\* The header values tried: none, `attachment; filename="hint.bin"`, and
\* `attachment; filename=hint.bin`.
Dispositions == { NoHeader, << "quoted", "hint.bin" >>, << "bare", "hint.bin" >> }

\* re.search(r'filename="([^"]+)"', cd): the quoted form alone matches.
FilenameMatch(cd) == IF cd[1] = "quoted" THEN cd[2] ELSE NoName

pick_filename(u, headers, o) ==
    IF o # NoName THEN o
    ELSE IF headers # NoHeader /\ FilenameMatch(headers) # NoName
    THEN FilenameMatch(headers)
    ELSE u[Len(u)]

\* The `output` argument _probe passes to pick_filename: None.
ProbeOutputArg(o) == NoName

\* main: the path given with --output, or download.tmp in the current directory;
\* DownloaderHTTP.__init__ keeps it as self.out.
InitialOut(o) == IF o # NoName THEN o ELSE "download.tmp"

\* The source and the --output of a run, and what the server will answer.
NewNaming(o, cd) ==
    /\ output = o
    /\ url = << "http:", "", "host", "file.iso" >>
    /\ content_disposition = cd
    /\ out = InitialOut(o)

\* ------------------------------------------------------------ the reporter
\* The 0.1 s of StatusReporter's throttle, in ticks of 0.05 s.
ThrottleTicks == 2

\* StatusReporter.__init__; time.time() is far past 0.
NewReporter ==
    /\ clock = ThrottleTicks
    /\ last_update = 0
    /\ emitted = << >>
    /\ calls = 0
    /\ finalReported = "none"

\* TokenBucket.__init__
NewBucket(r) ==
    /\ rate = r
    /\ tokens = 0
    /\ elapsed = 0
    /\ lockOwner = 0
    /\ lockWaiters = << >>
    /\ cpc = [w \in Workers |-> "idle"]
    /\ need = [w \in Workers |-> 0]
    /\ wake = [w \in Workers |-> 0]
    /\ winOpen = FALSE
    /\ winTicks = 0
    /\ winBytes = 0

\* ---------------------------------------------------------------------- Init
\* The state file: << >> when there is none, else its JSON object.
NoState == << >>

\* A state file found at start: one record, for the single-stream segment.
LeftState == [c \in {<< 0, NoEnd >>} |-> 1]

\* State.__init__: the state file's content when it exists and parses, else {}.
LoadState(file) == file

Fresh ==
    /\ phase = "init"
    /\ accept_ranges = FALSE
    /\ total_size = 0
    /\ chunks = << >>
    /\ pending = << >>
    /\ pc = [w \in Workers |-> "idle"]
    /\ seg = [w \in Workers |-> NoSeg]
    /\ rs = [w \in Workers |-> 0]
    /\ attempt = [w \in Workers |-> 0]
    /\ body = [w \in Workers |-> << >>]
    /\ progress_downloaded = 0
    /\ asmIdx = 0
    /\ popCount = << >>
    /\ netBytes = 0
    /\ partsExact = FALSE
    /\ failures = 0

\* A run given --output o (or none), on a server that will answer with the
\* Content-Disposition cd.
StartOfRun(o, cd) ==
    /\ srvRanges \in BOOLEAN
    /\ srvLength \in BOOLEAN
    /\ chunk_size \in 1..MaxChunkSize
    /\ verify_sha256 \in Hashes
    /\ Fresh
    /\ error = "none"
    /\ NewBucket(0)
    /\ NewReporter
    /\ NewNaming(o, cd)
    /\ parts = << >>
    /\ outFile = Absent
    /\ state_file \in {NoState, LeftState}
    /\ state_data = LoadState(state_file)
    /\ run = 1
    /\ killedIn = "none"
    /\ onDisk = 0

Init == StartOfRun(NoName, NoHeader)

\* What no step of a transfer changes: the settings, the server, the State object
\* (nothing in DownloaderHTTP assigns State.data or calls State.save), and the
\* limiter when no rate is configured.
settings == << srvRanges, srvLength, chunk_size, verify_sha256, state_data,
               state_file, limiter, reporter, output, url, content_disposition >>

config == << settings, out >>

observed == << failures, killedIn, onDisk, error >>

\* --------------------------------------------------------------------- probe
Probe ==
    /\ phase = "init"
    /\ total_size' = (IF srvLength THEN ResourceSize ELSE 0)
    /\ accept_ranges' = srvRanges
    /\ out' = pick_filename(url, content_disposition, ProbeOutputArg(output))
    /\ chunks' = Plan(accept_ranges', total_size', chunk_size)
    /\ phase' = "probed"
    /\ UNCHANGED << settings, observed, pending, pc, seg, rs, attempt, body,
                    progress_downloaded, parts, outFile, asmIdx, run, popCount, netBytes, partsExact >>

\* ---------------------------------------------------------------- _fetch
\* Entry of _fetch(start, end): dest's size is read once, before the retry loop.
RangeStart(c) == c[1] + FileSize(parts, c)

\* The Range header _fetch builds once, as the pair ServerResponses takes.
RangeFrom(w) ==
    IF seg[w][2] # NoEnd THEN rs[w]
    ELSE IF rs[w] - seg[w][1] > 0 THEN rs[w]
    ELSE NoEnd

RetryExhausted(a) == a > retries

\* The except clause: count the attempt, re-raise past the budget, else back off
\* and go round the loop again.
OnException(w) ==
    /\ attempt' = [attempt EXCEPT ![w] = @ + 1]
    /\ pc' = [pc EXCEPT ![w] = IF RetryExhausted(attempt[w] + 1) THEN "raised"
                                                                ELSE "request"]
    /\ body' = [body EXCEPT ![w] = << >>]

\* The worker's loop, from `while pending` to the first await inside _fetch, on
\* the workers' state st (pending, seg, rs, attempt, pc, popCount).  Nothing in
\* it suspends: the semaphore has as many permits as there are workers and each
\* is given back right after the pop, so acquiring it returns at once.
\* `pending[0]` in place of `pending.pop(0)`.
AfterPeek(p) == p

AfterPop(p) == Tail(p)

\* `(s, e) = pending.pop(0)`, then the entry of _fetch(s, e, i).  pop(0) on an
\* empty list raises IndexError, which ends the worker.
WorkerPop(w, st) ==
    IF st.pending = << >>
    THEN [st EXCEPT !.pc[w] = "indexerror"]
    ELSE LET c == Head(st.pending) IN
         [st EXCEPT !.pending = AfterPop(@),
                    !.seg[w] = c,
                    !.rs[w] = RangeStart(c),
                    !.attempt[w] = 0,
                    !.pc[w] = "request",
                    !.popCount[c] = @ + 1]

\* `while pending` finds the list empty: the worker returns.
WorkerExit(w, st) ==
    [st EXCEPT !.seg[w] = NoSeg, !.rs[w] = 0, !.attempt[w] = 0, !.pc[w] = "done"]

\* The loop that pops without testing the list: `while True` for `while pending`.
PopUntested(w, st) == WorkerPop(w, st)

worker(w, st) == IF st.pending # << >> THEN WorkerPop(w, st) ELSE WorkerExit(w, st)

\* gather starts the workers: each runs, in turn, up to its first await.
RECURSIVE StartWorkers(_, _)
StartWorkers(w, st) ==
    IF w \notin Workers THEN st ELSE StartWorkers(w + 1, worker(w, st))

WorkersState ==
    [pending |-> pending, seg |-> seg, rs |-> rs, attempt |-> attempt, pc |-> pc,
     popCount |-> popCount]

SetWorkers(st) ==
    /\ pending' = st.pending
    /\ seg' = st.seg
    /\ rs' = st.rs
    /\ attempt' = st.attempt
    /\ pc' = st.pc
    /\ popCount' = st.popCount

\* download(), after _probe: the inline fetch, or the pool of workers.
StartFetch ==
    /\ phase = "probed"
    /\ phase' = "fetching"
    /\ IF ~accept_ranges
       THEN SetWorkers([WorkersState EXCEPT
                            !.seg[1] = << 0, NoEnd >>,
                            !.rs[1] = RangeStart(<< 0, NoEnd >>),
                            !.attempt[1] = 0,
                            !.pc[1] = "request",
                            !.popCount = [c \in ChunkSet |-> 0]])
       ELSE SetWorkers(StartWorkers(1, [WorkersState EXCEPT
                                           !.pending = chunks,
                                           !.popCount = [c \in ChunkSet |-> 0]]))
    /\ UNCHANGED << config, observed, accept_ranges, total_size, chunks, body,
                    progress_downloaded, parts, outFile, asmIdx, run, netBytes, partsExact >>

\* session.get answers: an error status makes raise_for_status raise; otherwise
\* dest is opened for appending and the body starts to arrive.
Request(w) ==
    /\ phase = "fetching" /\ pc[w] = "request"
    /\ \E r \in ServerResponses(RangeFrom(w), seg[w][2]) :
         IF r[1] = "error"
         THEN /\ OnException(w)
              /\ UNCHANGED parts
         ELSE /\ pc' = [pc EXCEPT ![w] = "stream"]
              /\ body' = [body EXCEPT ![w] = r[2]]
              /\ parts' = AppendTo(parts, seg[w], << >>)
              /\ UNCHANGED attempt
    /\ UNCHANGED << config, observed, phase, accept_ranges, total_size, chunks,
                    pending, seg, rs, progress_downloaded, outFile, asmIdx, run, popCount, netBytes, partsExact >>

\* The connection fails or times out before a response arrives.
RequestFail(w) ==
    /\ phase = "fetching" /\ pc[w] = "request"
    /\ failures < MaxFailures
    /\ OnException(w)
    /\ failures' = failures + 1
    /\ UNCHANGED << config, killedIn, onDisk, error, phase, accept_ranges, total_size,
                    chunks, pending, seg, rs, progress_downloaded, parts, outFile,
                    asmIdx, run, popCount, netBytes,
                    partsExact >>

\* The counter counting the buffers written, not their bytes.
CountBuffers(p, n) == p + 1

\* `self.progress_downloaded += len(chunk)`
AddToCounter(p, n) == p + n

\* One round of `async for chunk in r.content.iter_chunked(65536)`: the limiter
\* (no rate configured: it returns at once), the write, the counter.
StreamChunk(w) ==
    /\ phase = "fetching" /\ pc[w] = "stream" /\ body[w] # << >>
    /\ \E n \in 1..Min(MaxBuf, Len(body[w])) :
         /\ parts' = AppendTo(parts, seg[w], SubSeq(body[w], 1, n))
         /\ body' = [body EXCEPT ![w] = SubSeq(@, n + 1, Len(@))]
         /\ rate = 0
         /\ progress_downloaded' = AddToCounter(progress_downloaded, n)
         /\ netBytes' = netBytes + n
    /\ UNCHANGED << config, observed, phase, accept_ranges, total_size, chunks,
                    pending, pc, seg, rs, attempt, outFile, asmIdx, run, popCount, partsExact >>

\* The body is exhausted: _fetch returns, and the worker goes round its loop.
StreamEnd(w) ==
    /\ phase = "fetching" /\ pc[w] = "stream" /\ body[w] = << >>
    /\ IF accept_ranges
       THEN SetWorkers(worker(w, WorkersState))
       ELSE SetWorkers(WorkerExit(w, WorkersState))
    /\ UNCHANGED << config, observed, phase, accept_ranges, total_size, chunks,
                    body, progress_downloaded, parts, outFile, asmIdx,
                    run, netBytes, partsExact >>

\* The connection breaks or times out while part of the body is still to come.
StreamFail(w) ==
    /\ phase = "fetching" /\ pc[w] = "stream" /\ body[w] # << >>
    /\ failures < MaxFailures
    /\ OnException(w)
    /\ failures' = failures + 1
    /\ UNCHANGED << config, killedIn, onDisk, error, phase, accept_ranges, total_size,
                    chunks, pending, seg, rs, progress_downloaded, parts, outFile,
                    asmIdx, run, popCount, netBytes,
                    partsExact >>

\* ------------------------------------------------------------- the join
\* `await asyncio.gather(...)` returns when every worker has returned; the inline
\* `await self._fetch(0, None, 1)` when that call has.
\* asyncio.wait(..., return_when=FIRST_COMPLETED) in place of gather.
FetchJoinedFirst ==
    IF accept_ranges THEN \E w \in Workers : pc[w] = "done" ELSE pc[1] = "done"

\* gather(..., return_exceptions=True): a worker's exception is a result.
FetchJoinedSwallow ==
    IF accept_ranges THEN \A w \in Workers : pc[w] \in {"done", "raised"}
    ELSE pc[1] \in {"done", "raised"}

FetchJoined ==
    IF accept_ranges THEN \A w \in Workers : pc[w] = "done" ELSE pc[1] = "done"

\* gather (return_exceptions not set) raises the first exception of a worker.
FetchRaised == \E w \in Workers : pc[w] \in {"raised", "indexerror"}

DownloadRaise ==
    /\ phase = "fetching" /\ FetchRaised
    /\ phase' = "failed"
    /\ error' = "fetch"
    /\ UNCHANGED << config, failures, killedIn, onDisk, accept_ranges, total_size,
                    chunks, pending, pc, seg, rs, attempt, body,
                    progress_downloaded, parts, outFile, asmIdx, run, popCount,
                    netBytes, partsExact >>

\* ------------------------------------------------------------- _assemble
\* The order in which the multi-segment branch appends the partial files.
\* The partial files taken last range first.
LastFirstOrder == [i \in DOMAIN chunks |-> chunks[Len(chunks) + 1 - i]]

AssembleOrder == chunks

\* Entry of _assemble: the single-stream branch renames and returns; the other
\* opens the output for writing.
AssembleStart ==
    /\ phase = "fetching" /\ FetchJoined
    /\ partsExact' = \A c \in ChunkSet : Exists(parts, c) /\ parts[c] = SegBytes(c)
    /\ IF ~accept_ranges
       THEN /\ phase' = "verifying"
            /\ IF Exists(parts, << 0, NoEnd >>)
               THEN /\ outFile' = File(parts[<< 0, NoEnd >>])
                    /\ parts' = Unlink(parts, << 0, NoEnd >>)
               ELSE UNCHANGED << outFile, parts >>
       ELSE /\ phase' = "assembling"
            /\ outFile' = File(<< >>)
            /\ UNCHANGED parts
    /\ asmIdx' = 0
    /\ UNCHANGED << config, observed, accept_ranges, total_size, chunks, pending,
                    pc, seg, rs, attempt, body, progress_downloaded, run, popCount,
                    netBytes >>

\* One round of `for (s, e) in self.chunks`: read the partial file, append it,
\* unlink it.  A partial file that does not exist makes open() raise.
AssembleChunk ==
    /\ phase = "assembling" /\ asmIdx < Len(chunks)
    /\ LET c == AssembleOrder[asmIdx + 1] IN
         IF Exists(parts, c)
         THEN /\ outFile' = File(outFile[2] \o parts[c])
              /\ parts' = Unlink(parts, c)
              /\ asmIdx' = asmIdx + 1
              /\ UNCHANGED << phase, error >>
         ELSE /\ phase' = "failed"
              /\ error' = "assemble"
              /\ UNCHANGED << outFile, parts, asmIdx >>
    /\ UNCHANGED << config, failures, killedIn, onDisk, accept_ranges, total_size,
                    chunks, pending, pc, seg, rs, attempt, body,
                    progress_downloaded, run, popCount, netBytes, partsExact >>

\* An I/O error inside the loop (the partial file cannot be read, the output
\* cannot be written): the exception leaves _assemble and download(), with the
\* partial files appended so far already unlinked.
AssembleFail ==
    /\ phase = "assembling" /\ asmIdx < Len(chunks)
    /\ phase' = "failed"
    /\ error' = "assemble"
    /\ UNCHANGED << config, failures, killedIn, onDisk, accept_ranges, total_size,
                    chunks, pending, pc, seg, rs, attempt, body,
                    progress_downloaded, parts, outFile, asmIdx, run, popCount,
                    netBytes, partsExact >>

AssembleEnd ==
    /\ phase = "assembling" /\ asmIdx = Len(chunks)
    /\ phase' = "verifying"
    /\ UNCHANGED << config, observed, accept_ranges, total_size, chunks, pending,
                    pc, seg, rs, attempt, body, progress_downloaded, parts, outFile,
                    asmIdx, run, popCount, netBytes, partsExact >>

\* ------------------------------------------------------------ the hash check
\* After _assemble: the optional hash check, then "Saved".
Verify ==
    /\ phase = "verifying"
    /\ IF verify_sha256 = NoHash
       THEN phase' = "saved" /\ UNCHANGED error
       ELSE IF outFile = Absent
       THEN phase' = "failed" /\ error' = "io"
       ELSE IF Lower(HexDigest(outFile[2])) # Lower(verify_sha256)
       THEN phase' = "failed" /\ error' = "hash"
       ELSE phase' = "saved" /\ UNCHANGED error
    /\ UNCHANGED << config, failures, killedIn, onDisk, accept_ranges, total_size,
                    chunks, pending, pc, seg, rs, attempt, body,
                    progress_downloaded, parts, outFile, asmIdx, run, popCount,
                    netBytes, partsExact >>

\* ------------------------------------------------------- kill and restart
Running == phase \in {"init", "probed", "fetching", "assembling", "verifying"}

\* The process is killed: memory is lost, the disk stays as it is.
Kill ==
    /\ Running /\ run < MaxRuns
    /\ phase' = "killed"
    /\ killedIn' = phase
    /\ UNCHANGED << config, failures, onDisk, error, accept_ranges, total_size,
                    chunks, pending, pc, seg, rs, attempt, body,
                    progress_downloaded, parts, outFile, asmIdx, run, popCount,
                    netBytes, partsExact >>

\* The same command line is run again: DownloaderHTTP.__init__ over the same disk.
Restart ==
    /\ phase = "killed"
    /\ phase' = "init"
    /\ accept_ranges' = FALSE
    /\ total_size' = 0
    /\ chunks' = << >>
    /\ pending' = << >>
    /\ pc' = [w \in Workers |-> "idle"]
    /\ seg' = [w \in Workers |-> NoSeg]
    /\ rs' = [w \in Workers |-> 0]
    /\ attempt' = [w \in Workers |-> 0]
    /\ body' = [w \in Workers |-> << >>]
    /\ progress_downloaded' = 0
    /\ asmIdx' = 0
    /\ popCount' = << >>
    /\ netBytes' = 0
    /\ partsExact' = FALSE
    /\ failures' = 0
    /\ run' = run + 1
    /\ onDisk' = SumSizes(parts, DOMAIN parts)
    /\ out' = InitialOut(output)
    /\ UNCHANGED << settings, killedIn, error, parts, outFile >>

\* ------------------------------------------------------- TokenBucket.consume
\* The debit made whatever the bucket holds.
EnoughAlways(t, n) == TRUE

\* `if self.tokens >= n`
Enough(t, n) == t >= n * TicksPerSec

\* One round of consume's `while True`, run by the holder of the lock: refill,
\* then debit, release the lock (it passes to the first caller queued) and
\* return, or sleep 0.1 s with the lock held.
Round(w, n) ==
    LET t == Refill(tokens, elapsed) IN
    /\ elapsed' = 0
    /\ IF Enough(t, n)
       THEN /\ tokens' = t - n * TicksPerSec
            /\ cpc' = [cpc EXCEPT ![w] = "idle"]
            /\ need' = [need EXCEPT ![w] = 0]
            /\ lockOwner' = (IF lockWaiters = << >> THEN 0 ELSE Head(lockWaiters))
            /\ lockWaiters' = (IF lockWaiters = << >> THEN << >> ELSE Tail(lockWaiters))
            /\ winBytes' = (IF winOpen THEN winBytes + n ELSE winBytes)
            /\ UNCHANGED wake
       ELSE /\ tokens' = t
            /\ cpc' = [cpc EXCEPT ![w] = "sleep"]
            /\ need' = [need EXCEPT ![w] = n]
            /\ wake' = [wake EXCEPT ![w] = 1]
            /\ lockOwner' = w
            /\ UNCHANGED << lockWaiters, winBytes >>

\* A worker calls consume(n), n the length of a buffer, with a rate configured:
\* it takes the lock and runs a round at once when the lock is free, else it
\* queues for the lock.
Consume(w) ==
    /\ rate # 0 /\ cpc[w] = "idle"
    /\ \E n \in 1..MaxBuf :
         IF lockOwner = 0
         THEN Round(w, n)
         ELSE /\ lockWaiters' = Append(lockWaiters, w)
              /\ cpc' = [cpc EXCEPT ![w] = "lockwait"]
              /\ need' = [need EXCEPT ![w] = n]
              /\ UNCHANGED << tokens, elapsed, lockOwner, wake, winBytes >>
    /\ UNCHANGED << rate, winOpen, winTicks, transfer, reporter, naming >>

\* The lock was passed to a queued caller: it runs its first round.
LockGranted(w) ==
    /\ cpc[w] = "lockwait" /\ lockOwner = w
    /\ Round(w, need[w])
    /\ UNCHANGED << rate, winOpen, winTicks, transfer, reporter, naming >>

\* The sleep of 0.1 s is over: the next round.
WakeUp(w) ==
    /\ cpc[w] = "sleep" /\ wake[w] = 0
    /\ Round(w, need[w])
    /\ UNCHANGED << rate, winOpen, winTicks, transfer, reporter, naming >>

\* Time passes: one tick.  Past MaxIdle ticks without a refill the bucket is
\* full whatever the exact count, and a window is observed for MaxWindow ticks.
Tick ==
    /\ rate # 0
    /\ elapsed' = Min(elapsed + 1, MaxIdle)
    /\ wake' = [w \in Workers |-> IF wake[w] > 0 THEN wake[w] - 1 ELSE 0]
    /\ IF winOpen /\ winTicks < MaxWindow
       THEN winTicks' = winTicks + 1 /\ UNCHANGED << winOpen, winBytes >>
       ELSE winOpen' = FALSE /\ winTicks' = 0 /\ winBytes' = 0
    /\ UNCHANGED << rate, tokens, lockOwner, lockWaiters, cpc, need, transfer,
                    reporter, naming >>

\* An observer starts to count the bytes let through.
OpenWindow ==
    /\ rate # 0 /\ ~winOpen
    /\ winOpen' = TRUE
    /\ winTicks' = 0
    /\ winBytes' = 0
    /\ UNCHANGED << rate, tokens, elapsed, lockOwner, lockWaiters, cpc, need, wake,
                    transfer, reporter, naming >>

\* A limiter with a rate configured, called by the workers of a transfer.
InitLimiter ==
    /\ \E r \in 1..MaxRate : NewBucket(r)
    /\ NewReporter
    /\ NewNaming(NoName, NoHeader)
    /\ srvRanges = TRUE
    /\ srvLength = TRUE
    /\ chunk_size = MaxChunkSize
    /\ verify_sha256 = NoHash
    /\ Fresh
    /\ error = "none"
    /\ parts = << >>
    /\ outFile = Absent
    /\ state_file = << >>
    /\ state_data = LoadState(state_file)
    /\ run = 1
    /\ killedIn = "none"
    /\ onDisk = 0

NextLimiter ==
    \/ \E w \in Workers : Consume(w)
    \/ \E w \in Workers : LockGranted(w)
    \/ \E w \in Workers : WakeUp(w)
    \/ Tick
    \/ OpenWindow

SpecLimiter == InitLimiter /\ [][NextLimiter]_vars

\* The event loop runs every task that is ready, and time passes.
FairSpecLimiter ==
    /\ SpecLimiter
    /\ WF_vars(Tick)
    /\ \A w \in Workers : WF_vars(LockGranted(w)) /\ WF_vars(WakeUp(w))

\* ------------------------------------------------------------ the file name
\* _probe, for every --output and every Content-Disposition tried.
InitName == \E o \in Outputs, cd \in Dispositions : StartOfRun(o, cd)

NextName == Probe

SpecName == InitName /\ [][NextName]_vars

\* ------------------------------------------------------------- the planner
\* The last step of _probe, "Setup chunk ranges", on its own: from what the
\* headers gave (range support, size) and the chunk size to the plan.
SetupChunks ==
    /\ phase = "init"
    /\ chunks' = Plan(accept_ranges, total_size, chunk_size)
    /\ phase' = "probed"
    /\ UNCHANGED << config, observed, accept_ranges, total_size, pending, pc, seg,
                    rs, attempt, body, progress_downloaded, parts, outFile, asmIdx,
                    run, popCount, netBytes, partsExact >>

\* The planner's inputs: range support or none, every size up to MaxPlanSize
\* (0: unknown), every chunk size up to MaxPlanChunk.
InitPlan ==
    /\ accept_ranges \in BOOLEAN
    /\ total_size \in 0..MaxPlanSize
    /\ chunk_size \in 1..MaxPlanChunk
    /\ srvRanges = accept_ranges
    /\ srvLength = (total_size # 0)
    /\ verify_sha256 = NoHash
    /\ phase = "init"
    /\ chunks = << >>
    /\ pending = << >>
    /\ pc = [w \in Workers |-> "idle"]
    /\ seg = [w \in Workers |-> NoSeg]
    /\ rs = [w \in Workers |-> 0]
    /\ attempt = [w \in Workers |-> 0]
    /\ body = [w \in Workers |-> << >>]
    /\ progress_downloaded = 0
    /\ asmIdx = 0
    /\ popCount = << >>
    /\ netBytes = 0
    /\ partsExact = FALSE
    /\ failures = 0
    /\ error = "none"
    /\ NewBucket(0)
    /\ NewReporter
    /\ NewNaming(NoName, NoHeader)
    /\ parts = << >>
    /\ outFile = Absent
    /\ state_file = NoState
    /\ state_data = LoadState(state_file)
    /\ run = 1
    /\ killedIn = "none"
    /\ onDisk = 0

NextPlan == SetupChunks

SpecPlan == InitPlan /\ [][NextPlan]_vars

\* ------------------------------------------------------------ StatusReporter
\* StatusReporter.report(status_data): nothing is printed within 0.1 s of the
\* event printed last, whatever the status.
report(status) ==
    IF clock - last_update < ThrottleTicks
    THEN UNCHANGED << last_update, emitted >>
    ELSE /\ last_update' = clock
         /\ emitted' = Append(emitted, << status, clock >>)

FinalStatuses == {"completed", "error"}

\* download_with_status reports a status of the transfer under way.
ReportProgress ==
    /\ finalReported = "none" /\ calls < MaxReports
    /\ \E status \in {"initializing", "downloading"} : report(status)
    /\ calls' = calls + 1
    /\ UNCHANGED << clock, finalReported, transfer, limiter, naming >>

\* download() has returned ("completed"), or raised ("error"; also reported
\* when _probe or the constructor raised): the last report of the transfer.
ReportFinal ==
    /\ finalReported = "none"
    /\ \E status \in FinalStatuses :
         /\ report(status)
         /\ finalReported' = status
    /\ calls' = calls + 1
    /\ UNCHANGED << clock, transfer, limiter, naming >>

\* Time passes between two reports.
ClockTick ==
    /\ finalReported = "none" /\ clock < ThrottleTicks + MaxClock
    /\ clock' = clock + 1
    /\ UNCHANGED << last_update, emitted, calls, finalReported, transfer, limiter, naming >>

\* The reporter of a transfer that has not started.
InitReporter == InitLimiter

NextReporter ==
    \/ ReportProgress
    \/ ReportFinal
    \/ ClockTick

SpecReporter == InitReporter /\ [][NextReporter]_vars

\* ----------------------------------------------------------- specification
Next ==
    \/ Probe
    \/ StartFetch
    \/ \E w \in Workers : Request(w)
    \/ \E w \in Workers : RequestFail(w)
    \/ \E w \in Workers : StreamChunk(w)
    \/ \E w \in Workers : StreamEnd(w)
    \/ \E w \in Workers : StreamFail(w)
    \/ DownloadRaise
    \/ AssembleStart
    \/ AssembleChunk
    \/ AssembleFail
    \/ AssembleEnd
    \/ Verify

Spec == Init /\ [][Next]_vars

\* A transfer that is killed and run again over the same disk, on a network that
\* does not fail.
NextResume ==
    \/ Probe
    \/ StartFetch
    \/ \E w \in Workers : Request(w)
    \/ \E w \in Workers : StreamChunk(w)
    \/ \E w \in Workers : StreamEnd(w)
    \/ DownloadRaise
    \/ AssembleStart
    \/ AssembleChunk
    \/ AssembleEnd
    \/ Verify
    \/ Kill
    \/ Restart

SpecResume == Init /\ [][NextResume]_vars

\* ================================================================ properties
\* _assemble has been entered in this run.
AssemblyBegun ==
    \/ phase \in {"assembling", "verifying", "saved"}
    \/ phase = "failed" /\ error # "fetch"

\* C1: _assemble never starts while a planned segment is still pending or being
\* fetched: when it has started, the queue is empty, every worker of the pool
\* (the inline fetch, without range support) has returned, and none has raised.
C1_JoinBarrier ==
    AssemblyBegun =>
        /\ pending = << >>
        /\ \A w \in Workers :
             pc[w] = (IF accept_ranges \/ w = 1 THEN "done" ELSE "idle")
        /\ ~FetchRaised

C1_Witness ==
    /\ phase = "assembling" /\ asmIdx = 0
    /\ accept_ranges /\ Len(chunks) > NumWorkers

\* C2: every segment of the plan is popped at most once, no two workers hold the
\* same segment, and when all workers have returned every segment was popped
\* exactly once.
C2_ExactlyOnce ==
    /\ \A c \in DOMAIN popCount : popCount[c] <= 1
    /\ \A v, w \in Workers :
         (v # w /\ pc[v] \in {"request", "stream"} /\ pc[w] \in {"request", "stream"})
            => seg[v] # seg[w]
    /\ (accept_ranges /\ \A w \in Workers : pc[w] = "done")
            => \A c \in ChunkSet : popCount[c] = 1

C2_Witness ==
    /\ accept_ranges /\ \A w \in Workers : pc[w] = "done"
    /\ Len(chunks) > NumWorkers

\* C3: on a server that serves ranges and announces the length (every segment
\* is bounded), a retry inside _fetch asks for the range that starts after the
\* bytes now in the partial file, and a partial file never holds more bytes
\* than its range.
C3_RetryResumes ==
    (srvRanges /\ srvLength) =>
        /\ \A w \in Workers :
             (pc[w] = "request" /\ attempt[w] > 0)
                => rs[w] = seg[w][1] + FileSize(parts, seg[w])
        /\ \A c \in DOMAIN parts :
             c[2] # NoEnd => Len(parts[c]) <= c[2] - c[1] + 1

\* C4: on a server that serves ranges and announces the length, a transfer that
\* ends successfully, whatever attempts failed on the way, leaves an output file
\* equal to the resource, of total_size bytes.
C4_SavedIsIntact ==
    (srvRanges /\ srvLength /\ phase = "saved") =>
        /\ outFile = File(Resource)
        /\ Len(outFile[2]) = total_size

\* C5: _fetch makes at most retries + 1 attempts and issues no request past the
\* budget; once a fetch has raised, download() goes no further than failing with
\* that error: no _assemble, no hash check, no "Saved".
C5_ExhaustionAborts ==
    /\ \A w \in Workers :
         /\ attempt[w] <= retries + 1
         /\ pc[w] = "request" => attempt[w] <= retries
         /\ pc[w] = "raised" <=> attempt[w] = retries + 1
    /\ FetchRaised =>
         /\ phase \in {"fetching", "failed"}
         /\ phase = "failed" => error = "fetch"

C5_Witness ==
    /\ phase = "failed" /\ error = "fetch"
    /\ \E w \in Workers : pc[w] = "raised" /\ attempt[w] = retries + 1
    /\ outFile = Absent

\* C6: _assemble appends the partial files in the order of the plan: when each
\* held exactly the bytes of its range, the output is a prefix of the resource
\* while _assemble runs and the whole resource once it has returned.
C6_PlanOrder ==
    (AssemblyBegun /\ partsExact) =>
        /\ outFile # Absent
        /\ outFile[2] = SubSeq(Resource, 1, Len(outFile[2]))
        /\ (phase # "assembling" /\ error # "assemble") => outFile = File(Resource)

C6_Witness ==
    /\ phase = "saved" /\ partsExact
    /\ accept_ranges /\ Len(chunks) > NumWorkers

\* The expected hash, when one is configured, is the resource's.
HashAgrees == verify_sha256 = NoHash \/ Lower(verify_sha256) = HexDigest(Resource)

\* C7: a run restarted after a kill that left bytes in partial files ends
\* successfully, with the output equal to the resource, having received fewer
\* bytes than the resource holds.
C7_IdempotentResume ==
    (run > 1 /\ killedIn = "fetching" /\ onDisk > 0 /\ HashAgrees
        /\ phase \in {"saved", "failed"})
      => /\ phase = "saved"
         /\ outFile = File(Resource)
         /\ netBytes < ResourceSize

\* C8: the state file records, under each segment's key, the number of bytes
\* appended to that segment's partial file.
C8_WriteThrough ==
    \A c \in DOMAIN parts :
        Len(parts[c]) > 0 => (c \in DOMAIN state_file /\ state_file[c] = Len(parts[c]))

\* C9: the bytes for which consume returned within a window of T ticks are at
\* most rate * T plus one bucket capacity.
C9_RateBound ==
    winOpen => winBytes * TicksPerSec <= rate * winTicks + Capacity

C9_Witness ==
    /\ winOpen /\ winBytes > 0
    /\ winBytes * TicksPerSec = rate * winTicks + Capacity
    /\ \E w \in Workers : cpc[w] # "idle"

\* C10: every call of consume returns: a caller that waits for tokens or for the
\* lock is eventually back in its worker.
C10_ConsumeReturns ==
    \A w \in Workers : (cpc[w] # "idle") ~> (cpc[w] = "idle")

\* a is a prefix of b
IsPrefix(a, b) == Len(a) <= Len(b) /\ a = SubSeq(b, 1, Len(a))

\* C11: once a worker's _fetch has raised for good, no worker pops a further
\* segment from the pending list, and the partial files only grow by whole
\* buffers appended: none is cut short or removed while the fetch winds down.
C11_NoDispatchAfterFailure ==
    [][(phase = "fetching" /\ FetchRaised) =>
         /\ pending' = pending
         /\ \A c \in DOMAIN parts :
              c \in DOMAIN parts' /\ IsPrefix(parts[c], parts'[c])]_vars

\* C12: when _assemble fails on an I/O error, the partial file of every segment
\* of the plan still exists, those already appended included.
C12_AssembleKeepsParts ==
    (phase = "failed" /\ error = "assemble") =>
        \A c \in ChunkSet : Exists(parts, c)

\* C13: when download() has completed successfully, no partial file and no state
\* file is left on disk, whatever the disk held when the run started.
C13_CleanOnSuccess ==
    phase = "saved" => (parts = << >> /\ state_file = NoState)

\* The workers that have popped a segment (or run the inline fetch) and whose
\* _fetch has not returned or raised.
Fetching == { w \in Workers : pc[w] \in {"request", "stream"} }

\* C14: at every moment at most `concurrency` segments are being fetched, each by
\* a worker of its own, and one only without range support.
C14_BoundedFetches ==
    /\ Cardinality(Fetching) <= concurrency
    /\ Cardinality({ seg[w] : w \in Fetching }) = Cardinality(Fetching)
    /\ ~accept_ranges => Cardinality(Fetching) <= 1

C14_Witness ==
    /\ phase = "fetching" /\ pending # << >>
    /\ Cardinality(Fetching) = concurrency

\* C15: with range support and a known size, the plan is a sequence of
\* consecutive ranges that partitions [0, size): the first starts at 0, each
\* next one starts one past the previous end, every range but the last holds
\* chunk_size bytes, and the last, not empty, ends at size - 1.
C15_PlanPartitions ==
    (phase = "probed" /\ accept_ranges /\ total_size > 0) =>
        /\ Len(chunks) = CeilDiv(total_size, chunk_size)
        /\ chunks[1][1] = 0
        /\ \A i \in 1..(Len(chunks) - 1) :
             /\ chunks[i][2] - chunks[i][1] + 1 = chunk_size
             /\ chunks[i + 1][1] = chunks[i][2] + 1
        /\ chunks[Len(chunks)][1] <= chunks[Len(chunks)][2]
        /\ chunks[Len(chunks)][2] = total_size - 1

\* The probe found no range support, or no size.
Fallback == phase # "init" /\ (~accept_ranges \/ total_size = 0)

\* C16: without range support, or with the size unknown, the plan is the one
\* unbounded segment; one worker at most fetches it, asking for the whole
\* resource in one request without a Range header; and a transfer with no
\* failure on the way (and an expected hash, if any, that is the resource's)
\* does not stop before it ends, and ends "Saved", the output holding the
\* resource and the partial file gone.
C16_FallbackSingleStream ==
    Fallback =>
        /\ chunks = << << 0, NoEnd >> >>
        /\ Cardinality(Fetching) <= 1
        /\ \A w \in Fetching :
             /\ seg[w] = << 0, NoEnd >>
             /\ RangeFrom(w) = NoEnd
             /\ failures = 0 => attempt[w] = 0
        /\ (failures = 0 /\ error # "assemble" /\ HashAgrees) =>
             /\ phase # "failed"
             /\ phase # "saved" => ENABLED Next
             /\ phase = "saved" => (outFile = File(Resource) /\ parts = << >>)

C16_Witness ==
    /\ Fallback /\ ~srvRanges
    /\ phase = "saved" /\ failures = 0
    /\ outFile = File(Resource) /\ parts = << >>

\* C17: consecutive events printed are at least 0.1 s apart, and once the final
\* status of a transfer ("completed" or "error") has been reported, it is the
\* event printed last.
C17_FinalEventEmitted ==
    /\ \A i \in 1..(Len(emitted) - 1) :
         emitted[i + 1][2] - emitted[i][2] >= ThrottleTicks
    /\ finalReported # "none" =>
         (emitted # << >> /\ emitted[Len(emitted)][1] = finalReported)

\* Two hex digest strings that differ at most in the case of their digits.
SameHex(a, b) == a[2] = b[2] /\ a[1] \in {"sha", "SHA"} /\ b[1] \in {"sha", "SHA"}

\* _assemble has returned: the output is whole and on disk.
Assembled ==
    /\ AssemblyBegun /\ phase # "assembling" /\ error # "assemble"
    /\ accept_ranges => asmIdx = Len(chunks)

\* C18: with an expected hash configured, the check is made only once _assemble
\* has returned; "Saved" is reached only with an output whose digest is the
\* expected one up to case, and never fails on such an output; any other digest
\* makes download() fail with the hash error, the output left on disk.
C18_HashCheck ==
    verify_sha256 # NoHash =>
        /\ error = "hash" => (phase = "failed" /\ Assembled /\ outFile # Absent)
        /\ phase = "saved" =>
             (Assembled /\ SameHex(HexDigest(outFile[2]), verify_sha256))
        /\ (phase = "failed" /\ Assembled) =>
             /\ error = "hash"
             /\ outFile # Absent
             /\ ~SameHex(HexDigest(outFile[2]), verify_sha256)

C18_Witness ==
    /\ verify_sha256 # NoHash
    /\ phase = "failed" /\ error = "hash"
    /\ outFile = File(Resource)

\* C19: the file a transfer writes to after _probe is named by priority: the
\* name the user gave with --output when there is one; otherwise the filename
\* of the Content-Disposition header (in its quoted form) when there is one;
\* otherwise the last piece of the URL.
C19_NamePriority ==
    phase = "probed" =>
        out = (IF output # NoName THEN output
               ELSE IF FilenameMatch(content_disposition) # NoName
               THEN FilenameMatch(content_disposition)
               ELSE url[Len(url)])

\* C20: while segments are fetched, progress_downloaded is the number of bytes
\* the workers of this run have appended to the partial files (the bytes on disk
\* beyond those found at start), whatever the interleaving of the workers, and
\* no step of a run makes it smaller.
C20_CounterExact ==
    /\ [](phase \in {"probed", "fetching"} =>
            progress_downloaded + onDisk = SumSizes(parts, DOMAIN parts))
    /\ [][phase' # "init" => progress_downloaded' >= progress_downloaded]_vars

C20_Witness ==
    /\ phase = "fetching" /\ progress_downloaded >= NumWorkers
    /\ \A w \in Workers : pc[w] = "stream" /\ Len(parts[seg[w]]) > 0
    /\ \E w \in Workers : body[w] # << >>

\* The requests _fetch has issued so far for the segment worker w holds: one per
\* failed attempt, and the one in flight.
Requests(w) == attempt[w] + (IF pc[w] \in {"request", "stream"} THEN 1 ELSE 0)

\* C21: for every segment, _fetch issues at most `retries` requests, and the
\* fetch has failed for good as soon as `retries` attempts have failed.
C21_AttemptsWithinRetries ==
    \A w \in Workers :
        /\ Requests(w) <= retries
        /\ attempt[w] >= retries => pc[w] = "raised"

\* C22: with a rate configured, whatever calls of consume the workers make and
\* however much time passes between them, the bucket holds no less than 0
\* tokens and no more than its capacity, the rate.
C22_TokensWithinCapacity ==
    rate > 0 => (0 <= tokens /\ tokens <= Capacity)

\* A round has refilled the bucket to its capacity while a caller that asks for
\* more than the rate sleeps, and bytes have been let through before.
C22_Witness ==
    /\ rate > 0 /\ tokens = Capacity /\ elapsed = 0
    /\ winBytes > 0
    /\ \E w \in Workers : cpc[w] = "sleep"

RECURSIVE SumPops(_)
SumPops(cs) ==
    IF cs = {} THEN 0
    ELSE LET c == CHOOSE x \in cs : TRUE IN popCount[c] + SumPops(cs \ {c})

\* C23: no worker ever pops from an empty list: no worker ends on an
\* IndexError, every pop so far took a segment that was pending, and with
\* fewer segments than workers the workers left over return without popping.
C23_NoPopFromEmpty ==
    /\ \A w \in Workers : pc[w] # "indexerror"
    /\ (phase = "fetching" /\ accept_ranges) =>
         /\ SumPops(ChunkSet) + Len(pending) = Len(chunks)
         /\ \A w \in Workers : w > Len(chunks) => pc[w] = "done"

C23_Witness ==
    /\ phase = "fetching" /\ accept_ranges
    /\ Len(chunks) < NumWorkers
    /\ pending = << >>
    /\ \E w \in Workers : pc[w] = "stream"
    /\ \E w \in Workers : pc[w] = "done"

====
